---- MODULE Spec2Model ----
(***************************************************************************)
(* AccountsForge Pro: the row-level security policies, column constraints  *)
(* and triggers that the SQL scripts of the repository install on the      *)
(* profiles, expenses, revenues, claims, commissions and notifications     *)
(* tables, and the statements the pages issue against them.                *)
(*                                                                         *)
(* Money is counted in cents (DECIMAL(10,2)); a commission rate is counted *)
(* in hundredths of a percent (DECIMAL(5,2)), so 5.00 is 500.              *)
(*                                                                         *)
(* Row-level security: the policies of one table and one command are       *)
(* permissive and combine with OR.  Every policy a script creates and no   *)
(* script drops is in force.  A policy FOR UPDATE written with USING only  *)
(* applies the same expression to the new row (WITH CHECK).  A row that    *)
(* fails USING is skipped silently (zero rows, no error); a new row that   *)
(* fails WITH CHECK, a CHECK constraint or a UNIQUE constraint raises an   *)
(* error that rolls the whole statement back.                              *)
(***************************************************************************)
EXTENDS Integers, Sequences, FiniteSets, TLC

\* ---- bounds of the model ----
MaxRows == 1
MaxNotifications == 2
MaxTx == 2
MaxProfiles == 3

Users == {"u1", "u2"}
Roles == {"admin", "salesman", "employee"}
Amounts == {0, 3333}
ExpenseAmounts == {0, 12050}
ClaimAmounts == {0, 5000}
Rates == {500, 1000}
DefaultCommissionRate == 500
StatusIn == {"pending", "approved", "rejected", "paid"}

VARIABLES auth_users, profiles, expenses, revenues, claims, commissions,
          notifications, nextId, last, txs, lock

vars == <<auth_users, profiles, expenses, revenues, claims, commissions,
          notifications, nextId, last, txs, lock>>

\* ---- column constraints ----
ExpenseStatuses == {"pending", "approved", "rejected"}
RevenueStatuses == {"pending", "approved", "rejected"}
ClaimStatuses == {"pending", "approved", "rejected", "paid"}

\* amount: the expenses and revenues tables are the ones of the initial
\* schema, whose policies are in force; CREATE TABLE IF NOT EXISTS in the
\* later script leaves them as they are, so its CHECK (amount > 0) is not
\* on them.  The claims table was created with the check.
expenses_amount_check(amount) == TRUE

revenues_amount_check(amount) == TRUE

claims_amount_check(amount) == amount > 0

\* ---- the requester's role ----
\* the rows of profiles are kept in the order of their ids
ProfileRowsOf(uid) == {i \in 1..Len(profiles) : profiles[i].user_id = uid}

\* SELECT role FROM profiles WHERE user_id = auth.uid(): the role of the
\* first row found, NULL ("none") when there is none
get_current_user_role(uid) ==
    LET rows == ProfileRowsOf(uid)
    IN IF rows = {} THEN "none"
       ELSE profiles[CHOOSE i \in rows : \A j \in rows : i <= j].role

IsAdmin(uid) == get_current_user_role(uid) = "admin"

\* ---- policies on expenses ----
UsersCanViewOwnExpenses(uid, row) == uid = row.user_id \/ IsAdmin(uid)

\* an insert policy that lets an admin record expenses for anybody
UsersOrAdminsCanInsertExpenses(uid, row) == uid = row.user_id \/ IsAdmin(uid)

UsersCanInsertOwnExpenses(uid, row) == uid = row.user_id

UsersCanUpdateOwnPendingExpenses(uid, row) ==
    uid = row.user_id /\ row.status = "pending"

UsersCanUpdateTheirOwnExpenses(uid, row) == uid = row.user_id

AdminsCanUpdateAllExpenses(uid, row) == IsAdmin(uid)

\* a delete policy that also looks at the notifications table
AdminsCanDeleteExpensesNotYetNotified(uid, row) ==
    IsAdmin(uid) /\ notifications = <<>>

AdminsCanDeleteExpenses(uid, row) == IsAdmin(uid)

ExpensesUpdatePolicy(uid, row) ==
    \/ UsersCanUpdateOwnPendingExpenses(uid, row)
    \/ UsersCanUpdateTheirOwnExpenses(uid, row)
    \/ AdminsCanUpdateAllExpenses(uid, row)

\* ---- policies on revenues ----
UsersCanViewOwnRevenues(uid, row) == uid = row.user_id \/ IsAdmin(uid)

SalesmenCanInsertOwnRevenues(uid, row) ==
    uid = row.user_id /\ get_current_user_role(uid) \in {"salesman", "admin"}

UsersCanInsertTheirOwnRevenues(uid, row) == uid = row.user_id

RevenuesInsertPolicy(uid, row) ==
    \/ SalesmenCanInsertOwnRevenues(uid, row)
    \/ UsersCanInsertTheirOwnRevenues(uid, row)

UsersCanUpdateOwnPendingRevenues(uid, row) ==
    uid = row.user_id /\ row.status = "pending"

UsersCanUpdateTheirOwnRevenues(uid, row) == uid = row.user_id

AdminsCanUpdateAllRevenues(uid, row) == IsAdmin(uid)

AdminsCanDeleteRevenues(uid, row) == IsAdmin(uid)

RevenuesUpdatePolicy(uid, row) ==
    \/ UsersCanUpdateOwnPendingRevenues(uid, row)
    \/ UsersCanUpdateTheirOwnRevenues(uid, row)
    \/ AdminsCanUpdateAllRevenues(uid, row)

\* ---- policies on claims ----
UsersCanViewOwnClaims(uid, row) == uid = row.user_id \/ IsAdmin(uid)

UsersCanInsertOwnClaims(uid, row) == uid = row.user_id

UsersCanUpdateOwnPendingClaims(uid, row) ==
    uid = row.user_id /\ row.status = "pending"

UsersCanUpdateTheirOwnClaims(uid, row) == uid = row.user_id

AdminsCanUpdateAllClaims(uid, row) == IsAdmin(uid)

\* a delete policy for owners that does not look at the status
UsersCanDeleteTheirOwnClaims(uid, row) == uid = row.user_id

UsersCanDeleteTheirOwnPendingClaims(uid, row) ==
    uid = row.user_id /\ row.status = "pending"

AdminsCanDeleteAllClaims(uid, row) == IsAdmin(uid)

ClaimsUpdatePolicy(uid, row) ==
    \/ UsersCanUpdateOwnPendingClaims(uid, row)
    \/ UsersCanUpdateTheirOwnClaims(uid, row)
    \/ AdminsCanUpdateAllClaims(uid, row)

ClaimsDeletePolicy(uid, row) ==
    \/ UsersCanDeleteTheirOwnPendingClaims(uid, row)
    \/ AdminsCanDeleteAllClaims(uid, row)

\* ---- the decision of row-level security ----
\* whether the policies of the table for the command admit uid on the row
\* (for an insert, the new row)
Commands == {"select", "insert", "update", "delete"}

Tables == {"expenses", "revenues", "claims"}

Decide(uid, op, tbl, row) ==
    IF tbl = "expenses"
    THEN CASE op = "select" -> UsersCanViewOwnExpenses(uid, row)
           [] op = "insert" -> UsersCanInsertOwnExpenses(uid, row)
           [] op = "update" -> ExpensesUpdatePolicy(uid, row)
           [] op = "delete" -> AdminsCanDeleteExpenses(uid, row)
    ELSE IF tbl = "revenues"
    THEN CASE op = "select" -> UsersCanViewOwnRevenues(uid, row)
           [] op = "insert" -> RevenuesInsertPolicy(uid, row)
           [] op = "update" -> RevenuesUpdatePolicy(uid, row)
           [] op = "delete" -> AdminsCanDeleteRevenues(uid, row)
    ELSE CASE op = "select" -> UsersCanViewOwnClaims(uid, row)
           [] op = "insert" -> UsersCanInsertOwnClaims(uid, row)
           [] op = "update" -> ClaimsUpdatePolicy(uid, row)
           [] op = "delete" -> ClaimsDeletePolicy(uid, row)

\* ---- policies on profiles ----
UsersCanUpdateOwnProfile(uid, target) == uid = target

AdminsCanUpdateAllProfiles(uid, target) == IsAdmin(uid)

ProfilesUpdatePolicy(uid, target) ==
    \/ UsersCanUpdateOwnProfile(uid, target)
    \/ AdminsCanUpdateAllProfiles(uid, target)

\* ---- statements: payloads and results ----
\* the last request: who issued it, what it was, the status and the owner
\* its payload carried ("none" when it carried none), the status (for
\* profiles the role) the target row had before it, and what the caller was
\* told: "ok", "norows" (no error, no row affected) or "error"
NoRequest == [actor |-> "none", op |-> "none", tbl |-> "none", id |-> 0,
              status |-> "none", owner |-> "none", was |-> "none", res |-> "none"]

Request(uid, op, tbl, id, set, was, res) ==
    [actor |-> uid, op |-> op, tbl |-> tbl, id |-> id,
     status |-> IF "status" \in DOMAIN set THEN set.status ELSE "none",
     owner |-> IF "user_id" \in DOMAIN set THEN set.user_id ELSE "none",
     was |-> was, res |-> res]

UpdatePayloads(amounts) ==
    [status : StatusIn] \cup [amount : amounts] \cup [user_id : Users]

PaidPayloads == [status : {"paid"}, paid_date : {"today"},
                 payment_method : {"bank"}, payment_reference : {"ref"}]

ExpensePayloads == [user_id : Users, amount : ExpenseAmounts, status : StatusIn]

RevenuePayloads == [user_id : Users, amount : Amounts, status : StatusIn,
                    commission_rate : Rates]

ClaimPayloads == [user_id : Users, amount : ClaimAmounts, status : StatusIn]

\* UPDATE ... SET: the columns the payload names are replaced
ApplySet(row, set) ==
    [f \in DOMAIN row |-> IF f \in DOMAIN set THEN set[f] ELSE row[f]]

DeleteRow(table, id) == [i \in DOMAIN table \ {id} |-> table[i]]

\* ---- helper functions of the database ----
\* a ROUND that truncates
calculate_commission_amount_truncating(sale_amount, commission_rate) ==
    (sale_amount * commission_rate) \div 10000

\* ROUND((sale_amount * commission_rate) / 100, 2) on numeric values, which
\* rounds a tie away from zero; amounts and rates are not negative here
calculate_commission_amount(sale_amount, commission_rate) ==
    (sale_amount * commission_rate + 5000) \div 10000

create_notification(target_user_id, notification_type, ref_type, ref_id) ==
    [user_id |-> target_user_id, type |-> notification_type,
     reference_type |-> ref_type, reference_id |-> ref_id]

\* the commissions table without its UNIQUE(revenue_id)
commissions_without_unique(revenue_id) == TRUE

\* UNIQUE(revenue_id) on commissions: may a record for this revenue be added
commissions_revenue_id_key(revenue_id) ==
    \A i \in 1..Len(commissions) : commissions[i].revenue_id # revenue_id

\* ---- triggers ----
\* a trigger that does not look at the old status
revenue_is_set_approved(old, new) == new.status = "approved"

\* a trigger that fires on the rows that are not pending
revenue_is_being_approved_inverted(old, new) ==
    new.status = "approved" /\ old.status # "pending"

\* the IF of handle_revenue_approval
revenue_is_being_approved(old, new) ==
    new.status = "approved" /\ old.status = "pending"

\* a trigger that catches the failure of its inserts and returns the row
handle_revenue_approval_catching_errors(old, new, id) ==
    IF revenue_is_being_approved(old, new)
    THEN LET amt == calculate_commission_amount(new.amount, new.commission_rate)
             done == commissions_revenue_id_key(id)
         IN [row |-> [new EXCEPT !.commission_amount = amt],
             coms |-> IF done
                      THEN << [salesman_id |-> new.user_id, revenue_id |-> id,
                               commission_amount |-> amt,
                               commission_rate |-> new.commission_rate] >>
                      ELSE <<>>,
             notes |-> IF done
                       THEN << create_notification(new.user_id, "success", "revenue", id) >>
                       ELSE <<>>,
             error |-> FALSE]
    ELSE [row |-> new, coms |-> <<>>, notes |-> <<>>, error |-> FALSE]

\* a trigger whose INSERT INTO commissions is ON CONFLICT (revenue_id) DO
\* NOTHING
handle_revenue_approval_on_conflict_do_nothing(old, new, id) ==
    IF revenue_is_being_approved(old, new)
    THEN LET amt == calculate_commission_amount(new.amount, new.commission_rate)
         IN [row |-> [new EXCEPT !.commission_amount = amt],
             coms |-> IF commissions_revenue_id_key(id)
                      THEN << [salesman_id |-> new.user_id, revenue_id |-> id,
                               commission_amount |-> amt,
                               commission_rate |-> new.commission_rate] >>
                      ELSE <<>>,
             notes |-> << create_notification(new.user_id, "success", "revenue", id) >>,
             error |-> FALSE]
    ELSE [row |-> new, coms |-> <<>>, notes |-> <<>>, error |-> FALSE]

\* BEFORE UPDATE ON revenues: the row to store, the commission records and
\* the notifications the trigger adds, and whether it raised an error
handle_revenue_approval(old, new, id) ==
    IF revenue_is_being_approved(old, new)
    THEN LET amt == calculate_commission_amount(new.amount, new.commission_rate)
         IN [row |-> [new EXCEPT !.commission_amount = amt],
             coms |-> << [salesman_id |-> new.user_id, revenue_id |-> id,
                          commission_amount |-> amt,
                          commission_rate |-> new.commission_rate] >>,
             notes |-> << create_notification(new.user_id, "success", "revenue", id) >>,
             error |-> ~commissions_revenue_id_key(id)]
    ELSE [row |-> new, coms |-> <<>>, notes |-> <<>>, error |-> FALSE]

\* a trigger that tells the owner about rejections only
handle_expense_approval_rejections_only(old, new, id) ==
    IF new.status # old.status /\ new.status = "rejected"
    THEN << create_notification(new.user_id, "error", "expense", id) >>
    ELSE <<>>

\* AFTER UPDATE ON expenses: the notifications the trigger adds
handle_expense_approval(old, new, id) ==
    IF new.status # old.status /\ new.status \in {"approved", "rejected"}
    THEN << create_notification(new.user_id,
                IF new.status = "approved" THEN "success" ELSE "error",
                "expense", id) >>
    ELSE <<>>

\* ---- expenses ----
InsertExpense(uid, row) ==
    /\ nextId <= MaxRows
    /\ IF /\ UsersCanInsertOwnExpenses(uid, row)
          /\ row.status \in ExpenseStatuses
          /\ expenses_amount_check(row.amount)
       THEN /\ expenses' = (nextId :> row) @@ expenses
            /\ nextId' = nextId + 1
            /\ last' = Request(uid, "insert", "expenses", nextId, row, "none", "ok")
       ELSE /\ UNCHANGED <<expenses, nextId>>
            /\ last' = Request(uid, "insert", "expenses", 0, row, "none", "error")
    /\ UNCHANGED <<auth_users, profiles, revenues, claims, commissions, notifications, txs, lock>>

UpdateExpense(uid, id, set) ==
    /\ id \in DOMAIN expenses
    /\ IF ~ExpensesUpdatePolicy(uid, expenses[id])
       THEN /\ UNCHANGED <<expenses, notifications>>
            /\ last' = Request(uid, "update", "expenses", id, set, expenses[id].status, "norows")
       ELSE LET old == expenses[id]
                new == ApplySet(old, set)
            IN IF \/ ~ExpensesUpdatePolicy(uid, new)
                  \/ new.status \notin ExpenseStatuses
                  \/ ~expenses_amount_check(new.amount)
               THEN /\ UNCHANGED <<expenses, notifications>>
                    /\ last' = Request(uid, "update", "expenses", id, set, expenses[id].status, "error")
               ELSE /\ expenses' = [expenses EXCEPT ![id] = new]
                    /\ notifications' = notifications \o handle_expense_approval(old, new, id)
                    /\ Len(notifications') <= MaxNotifications
                    /\ last' = Request(uid, "update", "expenses", id, set, expenses[id].status, "ok")
    /\ UNCHANGED <<auth_users, profiles, revenues, claims, commissions, nextId, txs, lock>>

DeleteExpense(uid, id) ==
    /\ id \in DOMAIN expenses
    /\ IF AdminsCanDeleteExpenses(uid, expenses[id])
       THEN /\ expenses' = DeleteRow(expenses, id)
            /\ last' = Request(uid, "delete", "expenses", id, <<>>, expenses[id].status, "ok")
       ELSE /\ UNCHANGED expenses
            /\ last' = Request(uid, "delete", "expenses", id, <<>>, expenses[id].status, "norows")
    /\ UNCHANGED <<auth_users, profiles, revenues, claims, commissions, notifications, nextId, txs, lock>>

\* ---- revenues ----
InsertRevenue(uid, payload) ==
    /\ nextId <= MaxRows
    /\ IF /\ RevenuesInsertPolicy(uid, payload)
          /\ payload.status \in RevenueStatuses
          /\ revenues_amount_check(payload.amount)
       THEN /\ revenues' = (nextId :> [user_id |-> payload.user_id,
                                       amount |-> payload.amount,
                                       status |-> payload.status,
                                       commission_rate |-> payload.commission_rate,
                                       commission_amount |-> 0]) @@ revenues
            /\ nextId' = nextId + 1
            /\ last' = Request(uid, "insert", "revenues", nextId, payload, "none", "ok")
       ELSE /\ UNCHANGED <<revenues, nextId>>
            /\ last' = Request(uid, "insert", "revenues", 0, payload, "none", "error")
    /\ UNCHANGED <<auth_users, profiles, expenses, claims, commissions, notifications, txs, lock>>

\* the Add Revenue form: owner is the signed-in user, status and commission
\* rate are left to the column defaults
handleAddRevenue(uid, amount) ==
    InsertRevenue(uid, [user_id |-> uid, amount |-> amount, status |-> "pending",
                        commission_rate |-> DefaultCommissionRate])

\* one UPDATE revenues SET ... WHERE id = ... by uid: policy on the old row,
\* BEFORE trigger, policy and constraints on the new row
ExecUpdateRevenue(uid, id, set) ==
    IF ~RevenuesUpdatePolicy(uid, revenues[id])
    THEN /\ UNCHANGED <<revenues, commissions, notifications>>
         /\ last' = Request(uid, "update", "revenues", id, set, revenues[id].status, "norows")
    ELSE LET old == revenues[id]
             trg == handle_revenue_approval(old, ApplySet(old, set), id)
         IN IF \/ trg.error
               \/ ~RevenuesUpdatePolicy(uid, trg.row)
               \/ trg.row.status \notin RevenueStatuses
               \/ ~revenues_amount_check(trg.row.amount)
            THEN /\ UNCHANGED <<revenues, commissions, notifications>>
                 /\ last' = Request(uid, "update", "revenues", id, set, revenues[id].status, "error")
            ELSE /\ revenues' = [revenues EXCEPT ![id] = trg.row]
                 /\ commissions' = commissions \o trg.coms
                 /\ notifications' = notifications \o trg.notes
                 /\ Len(notifications') <= MaxNotifications
                 /\ last' = Request(uid, "update", "revenues", id, set, revenues[id].status, "ok")

UpdateRevenue(uid, id, set) ==
    /\ id \in DOMAIN revenues
    /\ ExecUpdateRevenue(uid, id, set)
    /\ UNCHANGED <<auth_users, profiles, expenses, claims, nextId, txs, lock>>

DeleteRevenue(uid, id) ==
    /\ id \in DOMAIN revenues
    /\ IF AdminsCanDeleteRevenues(uid, revenues[id])
       THEN /\ revenues' = DeleteRow(revenues, id)
            /\ last' = Request(uid, "delete", "revenues", id, <<>>, revenues[id].status, "ok")
       ELSE /\ UNCHANGED revenues
            /\ last' = Request(uid, "delete", "revenues", id, <<>>, revenues[id].status, "norows")
    /\ UNCHANGED <<auth_users, profiles, expenses, claims, commissions, notifications, nextId, txs, lock>>

\* ---- concurrent status updates of a revenue ----
\* handleUpdateStatus(revenueId, newStatus) sends one UPDATE; the database
\* runs it as its own transaction.  The statement takes the row lock, and
\* only then are the policy on the old row and the BEFORE trigger evaluated,
\* on the latest committed version of the row; a second statement on the
\* same row waits for the lock.  A request records the status its page
\* showed when it was issued (seen) and, once done, what the caller was
\* told, how many commission records and notifications it added, and its
\* place (seq) among the requests that committed on the same row.
TxIds == 1..MaxTx

NoTx == [pc |-> "idle", actor |-> "none", id |-> 0, status |-> "none",
         seen |-> "none", res |-> "none", coms |-> 0, notes |-> 0, seq |-> 0]

TxIssue(t, uid, id, newStatus) ==
    /\ txs[t].pc = "idle"
    /\ \A u \in TxIds : u < t => txs[u].pc # "idle"
    /\ id \in DOMAIN revenues
    /\ txs' = [txs EXCEPT ![t] = [NoTx EXCEPT !.pc = "issued", !.actor = uid,
                                   !.id = id, !.status = newStatus,
                                   !.seen = revenues[id].status]]
    /\ UNCHANGED <<auth_users, profiles, expenses, revenues, claims, commissions,
                   notifications, nextId, last, lock>>

TxLock(t) ==
    /\ txs[t].pc = "issued"
    /\ txs[t].id \notin lock
    /\ lock' = lock \cup {txs[t].id}
    /\ txs' = [txs EXCEPT ![t].pc = "locked"]
    /\ UNCHANGED <<auth_users, profiles, expenses, revenues, claims, commissions,
                   notifications, nextId, last>>

TxCommit(t) ==
    /\ txs[t].pc = "locked"
    /\ txs[t].id \in lock
    /\ ExecUpdateRevenue(txs[t].actor, txs[t].id, [status |-> txs[t].status])
    /\ lock' = lock \ {txs[t].id}
    /\ txs' = [txs EXCEPT ![t].pc = "done",
                          ![t].res = last'.res,
                          ![t].coms = Len(commissions') - Len(commissions),
                          ![t].notes = Len(notifications') - Len(notifications),
                          ![t].seq = 1 + Cardinality({u \in TxIds :
                                      txs[u].pc = "done" /\ txs[u].id = txs[t].id})]
    /\ UNCHANGED <<auth_users, profiles, expenses, claims, nextId>>

\* ---- claims ----
InsertClaim(uid, payload) ==
    /\ nextId <= MaxRows
    /\ IF /\ UsersCanInsertOwnClaims(uid, payload)
          /\ payload.status \in ClaimStatuses
          /\ claims_amount_check(payload.amount)
       THEN /\ claims' = (nextId :> [user_id |-> payload.user_id,
                                     amount |-> payload.amount,
                                     status |-> payload.status,
                                     paid_date |-> "null",
                                     payment_method |-> "null",
                                     payment_reference |-> "null"]) @@ claims
            /\ nextId' = nextId + 1
            /\ last' = Request(uid, "insert", "claims", nextId, payload, "none", "ok")
       ELSE /\ UNCHANGED <<claims, nextId>>
            /\ last' = Request(uid, "insert", "claims", 0, payload, "none", "error")
    /\ UNCHANGED <<auth_users, profiles, expenses, revenues, commissions, notifications, txs, lock>>

UpdateClaim(uid, id, set) ==
    /\ id \in DOMAIN claims
    /\ IF ~ClaimsUpdatePolicy(uid, claims[id])
       THEN /\ UNCHANGED claims
            /\ last' = Request(uid, "update", "claims", id, set, claims[id].status, "norows")
       ELSE LET new == ApplySet(claims[id], set)
            IN IF \/ ~ClaimsUpdatePolicy(uid, new)
                  \/ new.status \notin ClaimStatuses
                  \/ ~claims_amount_check(new.amount)
               THEN /\ UNCHANGED claims
                    /\ last' = Request(uid, "update", "claims", id, set, claims[id].status, "error")
               ELSE /\ claims' = [claims EXCEPT ![id] = new]
                    /\ last' = Request(uid, "update", "claims", id, set, claims[id].status, "ok")
    /\ UNCHANGED <<auth_users, profiles, expenses, revenues, commissions, notifications, nextId, txs, lock>>

DeleteClaim(uid, id) ==
    /\ id \in DOMAIN claims
    /\ IF ClaimsDeletePolicy(uid, claims[id])
       THEN /\ claims' = DeleteRow(claims, id)
            /\ last' = Request(uid, "delete", "claims", id, <<>>, claims[id].status, "ok")
       ELSE /\ UNCHANGED claims
            /\ last' = Request(uid, "delete", "claims", id, <<>>, claims[id].status, "norows")
    /\ UNCHANGED <<auth_users, profiles, expenses, revenues, commissions, notifications, nextId, txs, lock>>

\* ---- profiles ----
UsersCanInsertTheirOwnProfile(uid, row) == TRUE

\* user_id REFERENCES auth.users(id)
profiles_user_id_fkey(user_id) == user_id \in auth_users

\* the profiles table without its UNIQUE on user_id
profiles_without_unique(user_id) == TRUE

\* user_id UNIQUE on profiles: may a row for this identity be added
profiles_user_id_key(user_id) == ProfileRowsOf(user_id) = {}

\* raw_user_meta_data->>'role' of a sign-up: a role, or NULL when the
\* metadata carries none
MetaRoles == Roles \cup {"NULL"}

\* AFTER INSERT ON auth.users: INSERT INTO profiles ... VALUES (NEW.id, ...,
\* COALESCE(role, 'employee')) ON CONFLICT (user_id) DO NOTHING; the profiles
\* table after the trigger
handle_new_user(new_id, role) ==
    IF profiles_user_id_key(new_id)
    THEN Append(profiles, [user_id |-> new_id,
                           role |-> IF role = "NULL" THEN "employee" ELSE role])
    ELSE profiles

\* signUp(phone, password, fullName, role): a new identity is added to
\* auth.users and the trigger runs in the same transaction; the phone of an
\* identity that exists already is refused and nothing is inserted
handleSignUp(uid, role) ==
    /\ IF uid \notin auth_users
       THEN /\ auth_users' = auth_users \cup {uid}
            /\ profiles' = handle_new_user(uid, role)
            /\ last' = Request(uid, "signup", "profiles", 0,
                               [user_id |-> uid, role |-> role], "none", "ok")
       ELSE /\ UNCHANGED <<auth_users, profiles>>
            /\ last' = Request(uid, "signup", "profiles", 0,
                               [user_id |-> uid, role |-> role],
                               get_current_user_role(uid), "error")
    /\ UNCHANGED <<expenses, revenues, claims, commissions, notifications,
                   nextId, txs, lock>>

\* INSERT INTO profiles (user_id, role) VALUES (...) by a signed-in uid
InsertProfile(uid, row) ==
    /\ uid \in auth_users
    /\ IF /\ UsersCanInsertTheirOwnProfile(uid, row)
          /\ profiles_user_id_fkey(row.user_id)
          /\ profiles_user_id_key(row.user_id)
       THEN /\ profiles' = Append(profiles, row)
            /\ last' = Request(uid, "insert", "profiles", 0, row, "none", "ok")
       ELSE /\ UNCHANGED profiles
            /\ last' = Request(uid, "insert", "profiles", 0, row,
                               get_current_user_role(row.user_id), "error")
    /\ UNCHANGED <<auth_users, expenses, revenues, claims, commissions,
                   notifications, nextId, txs, lock>>

\* UPDATE profiles SET role = newRole WHERE user_id = target, issued by uid
handleRoleChange(uid, target, newRole) ==
    /\ uid \in auth_users
    /\ IF ProfilesUpdatePolicy(uid, target)
       THEN /\ profiles' = [i \in 1..Len(profiles) |->
                              IF profiles[i].user_id = target
                              THEN [profiles[i] EXCEPT !.role = newRole]
                              ELSE profiles[i]]
            /\ last' = Request(uid, "update", "profiles", 0,
                               [user_id |-> target, role |-> newRole],
                               get_current_user_role(target), "ok")
       ELSE /\ UNCHANGED profiles
            /\ last' = Request(uid, "update", "profiles", 0,
                               [user_id |-> target, role |-> newRole],
                               get_current_user_role(target), "norows")
    /\ UNCHANGED <<auth_users, expenses, revenues, claims, commissions, notifications,
                   nextId, txs, lock>>

\* ---- the system ----
\* every identity has signed up and has its profile
Init ==
    /\ auth_users = Users
    /\ profiles \in {<< [user_id |-> "u1", role |-> r1],
                        [user_id |-> "u2", role |-> r2] >> : r1, r2 \in Roles}
    /\ expenses = <<>>
    /\ revenues = <<>>
    /\ claims = <<>>
    /\ commissions = <<>>
    /\ notifications = <<>>
    /\ nextId = 1
    /\ last = NoRequest
    /\ txs = [t \in TxIds |-> NoTx]
    /\ lock = {}

Next ==
    \/ \E uid \in Users, row \in ExpensePayloads : InsertExpense(uid, row)
    \/ \E uid \in Users, id \in DOMAIN expenses, set \in UpdatePayloads(ExpenseAmounts) :
          UpdateExpense(uid, id, set)
    \/ \E uid \in Users, id \in DOMAIN expenses : DeleteExpense(uid, id)
    \/ \E uid \in Users, row \in RevenuePayloads : InsertRevenue(uid, row)
    \/ \E uid \in Users, id \in DOMAIN revenues, set \in UpdatePayloads(Amounts) :
          UpdateRevenue(uid, id, set)
    \/ \E uid \in Users, id \in DOMAIN revenues : DeleteRevenue(uid, id)
    \/ \E uid \in Users, row \in ClaimPayloads : InsertClaim(uid, row)
    \/ \E uid \in Users, id \in DOMAIN claims,
          set \in UpdatePayloads(ClaimAmounts) \cup PaidPayloads :
          UpdateClaim(uid, id, set)
    \/ \E uid \in Users, id \in DOMAIN claims : DeleteClaim(uid, id)
    \/ \E uid \in Users, target \in Users, newRole \in Roles :
          handleRoleChange(uid, target, newRole)

Spec == Init /\ [][Next]_vars

\* two sessions approving or rejecting the revenues salesmen record
RaceNext ==
    \/ \E uid \in Users, amount \in Amounts : handleAddRevenue(uid, amount)
    \/ \E t \in TxIds, uid \in Users, id \in DOMAIN revenues,
          newStatus \in {"approved", "rejected"} : TxIssue(t, uid, id, newStatus)
    \/ \E t \in TxIds : TxLock(t)
    \/ \E t \in TxIds : TxCommit(t)

SpecRace == Init /\ [][RaceNext]_vars

\* identities signing up, inserting profile rows and changing roles, from
\* an empty database
InitSignUp ==
    /\ auth_users = {}
    /\ profiles = <<>>
    /\ expenses = <<>>
    /\ revenues = <<>>
    /\ claims = <<>>
    /\ commissions = <<>>
    /\ notifications = <<>>
    /\ nextId = 1
    /\ last = NoRequest
    /\ txs = [t \in TxIds |-> NoTx]
    /\ lock = {}

SignUpNext ==
    \/ \E uid \in Users, role \in MetaRoles : handleSignUp(uid, role)
    \/ \E uid \in Users, row \in [user_id : Users, role : Roles] :
          InsertProfile(uid, row)
    \/ \E uid \in Users, target \in Users, newRole \in Roles :
          handleRoleChange(uid, target, newRole)

SpecSignUp == InitSignUp /\ [][SignUpNext]_vars

\* ---- the clean-up of duplicate profiles ----
\* a profiles table as the script may find it: rows in the order they were
\* created (created_at DEFAULT now()), each with the id gen_random_uuid()
\* gave it, which has nothing to do with that order
ProfileIds == 1..MaxProfiles

ProfileTablesOfLen(n) ==
    {[i \in 1..n |-> [id |-> ids[i], user_id |-> us[i], role |-> rs[i],
                      created_at |-> i]] :
        ids \in {f \in [1..n -> ProfileIds] :
                   \A i, j \in 1..n : i # j => f[i] # f[j]},
        us \in [1..n -> Users],
        rs \in [1..n -> Roles]}

ProfileTables == UNION {ProfileTablesOfLen(n) : n \in 0..MaxProfiles}

\* DELETE FROM profiles p1 WHERE EXISTS (SELECT 1 FROM profiles p2 WHERE
\* p2.user_id = p1.user_id AND p2.id > p1.id): the rows that stay
DeleteDuplicateProfiles ==
    SelectSeq(profiles,
              LAMBDA p1 : ~\E i \in 1..Len(profiles) :
                             /\ profiles[i].user_id = p1.user_id
                             /\ profiles[i].id > p1.id)

CleanUpDuplicateProfiles ==
    /\ profiles' = DeleteDuplicateProfiles
    /\ last' = [NoRequest EXCEPT !.op = "delete", !.tbl = "profiles", !.res = "ok"]
    /\ UNCHANGED <<auth_users, expenses, revenues, claims, commissions,
                   notifications, nextId, txs, lock>>

InitCleanUp ==
    /\ profiles \in ProfileTables
    /\ auth_users = {profiles[i].user_id : i \in 1..Len(profiles)}
    /\ expenses = <<>>
    /\ revenues = <<>>
    /\ claims = <<>>
    /\ commissions = <<>>
    /\ notifications = <<>>
    /\ nextId = 1
    /\ last = NoRequest
    /\ txs = [t \in TxIds |-> NoTx]
    /\ lock = {}

CleanUpNext == CleanUpDuplicateProfiles

SpecCleanUp == InitCleanUp /\ [][CleanUpNext]_vars

\* ---- reads ----
\* SELECT policies on profiles
UsersCanViewTheirOwnProfile(uid, row) == uid = row.user_id

AdminsCanViewAllProfiles(uid, row) == IsAdmin(uid)

PublicProfilesAreViewableByEveryone(uid, row) == TRUE

ProfilesSelectPolicy(uid, row) ==
    \/ UsersCanViewTheirOwnProfile(uid, row)
    \/ AdminsCanViewAllProfiles(uid, row)
    \/ PublicProfilesAreViewableByEveryone(uid, row)

SelectProfiles(uid) ==
    {i \in 1..Len(profiles) : ProfilesSelectPolicy(uid, profiles[i])}

\* SELECT through row-level security (the *_with_profiles views are
\* security_invoker, so they return the same rows)
SelectExpenses(uid) ==
    {id \in DOMAIN expenses : UsersCanViewOwnExpenses(uid, expenses[id])}

SelectRevenues(uid) ==
    {id \in DOMAIN revenues : UsersCanViewOwnRevenues(uid, revenues[id])}

SelectClaims(uid) ==
    {id \in DOMAIN claims : UsersCanViewOwnClaims(uid, claims[id])}

\* SECURITY DEFINER functions, executable by every authenticated user: they
\* run with the owner's rights, so no policy filters their result, and the
\* caller does not appear in them
TargetArgs == Users \cup {"NULL"}

get_expenses_with_profiles(target_user_id) ==
    IF target_user_id = "NULL" THEN DOMAIN expenses
    ELSE {id \in DOMAIN expenses : expenses[id].user_id = target_user_id}

get_revenues_with_profiles(target_user_id) ==
    IF target_user_id = "NULL" THEN DOMAIN revenues
    ELSE {id \in DOMAIN revenues : revenues[id].user_id = target_user_id}

get_claims_with_profiles(target_user_id) ==
    IF target_user_id = "NULL" THEN DOMAIN claims
    ELSE {id \in DOMAIN claims : claims[id].user_id = target_user_id}

\* ---- reports ----
\* rows.reduce((sum, r) => sum + Number(r.amount), 0)
RECURSIVE SumAmounts(_, _)
SumAmounts(table, ids) ==
    IF ids = {} THEN 0
    ELSE LET id == CHOOSE x \in ids : TRUE
         IN table[id].amount + SumAmounts(table, ids \ {id})

SalesmanFilters == Users \cup {"all"}

\* the P&L statement of ReportsPage for the signed-in uid; every row is taken
\* to lie inside the chosen date range
fetchPLData(uid, selectedSalesman) ==
    LET byUser(table, ids) ==
            IF get_current_user_role(uid) # "admin"
            THEN {id \in ids : table[id].user_id = uid}
            ELSE IF selectedSalesman # "all"
            THEN {id \in ids : table[id].user_id = selectedSalesman}
            ELSE ids
        revenueEntries == byUser(revenues, SelectRevenues(uid))
        expenseEntries == byUser(expenses, {id \in SelectExpenses(uid) :
                                              expenses[id].status = "approved"})
        totalRevenue == SumAmounts(revenues, revenueEntries)
        totalExpenses == SumAmounts(expenses, expenseEntries)
    IN [totalRevenue |-> totalRevenue, totalExpenses |-> totalExpenses,
        netProfit |-> totalRevenue - totalExpenses,
        revenueEntries |-> revenueEntries, expenseEntries |-> expenseEntries]

\* the summary of Dashboard for the signed-in uid (the totals over all time)
fetchFinancialData(uid) ==
    LET revenueRows == SelectRevenues(uid)
        expenseRows == IF get_current_user_role(uid) = "admin"
                       THEN SelectExpenses(uid)
                       ELSE {id \in SelectExpenses(uid) :
                               expenses[id].status = "approved"}
        totalRevenue == SumAmounts(revenues, revenueRows)
        totalExpenses == SumAmounts(expenses, expenseRows)
    IN [totalRevenue |-> totalRevenue, totalExpenses |-> totalExpenses,
        netProfit |-> totalRevenue - totalExpenses]

\* the totals of a performance record the signed-in uid generates for userId
\* (every row is taken to lie inside the chosen month)
generatePerformanceData(uid, userId) ==
    LET salesData == {id \in SelectRevenues(uid) :
                        /\ revenues[id].user_id = userId
                        /\ revenues[id].status = "approved"}
        expensesData == {id \in SelectExpenses(uid) :
                           /\ expenses[id].user_id = userId
                           /\ expenses[id].status = "approved"}
    IN [total_sales_amount |-> SumAmounts(revenues, salesData),
        total_sales_count |-> Cardinality(salesData),
        total_approved_expenses |-> SumAmounts(expenses, expensesData)]

\* ---- properties ----
AllIds == 1..MaxRows

CommissionCount(id) ==
    Cardinality({i \in 1..Len(commissions) : commissions[i].revenue_id = id})

ApprovalNotificationCount(id) ==
    Cardinality({i \in 1..Len(notifications) :
                   /\ notifications[i].reference_type = "revenue"
                   /\ notifications[i].reference_id = id
                   /\ notifications[i].type = "success"})

\* C1: for every revenue, in every reachable state, at most one commission
\* record carries its id as revenue_id.
C1_AtMostOneCommission == \A id \in AllIds : CommissionCount(id) <= 1

\* the uniqueness constraint has acted: a revenue that has its commission
\* record was set back to pending and a further approval was refused
C1_Witness ==
    /\ last.op = "update" /\ last.tbl = "revenues"
    /\ last.status = "approved" /\ last.was = "pending" /\ last.res = "error"
    /\ CommissionCount(last.id) = 1

\* C2: when the approve requests on one pending revenue, issued by
\* principals the update policy admits, are interleaved in any order, then
\* once they are all done the revenue is approved and has exactly one
\* commission record and one approval notification; the request that
\* committed first created them, and every other one succeeded or was
\* rejected and added nothing.
RaceOn(id) == {t \in TxIds : txs[t].pc # "idle" /\ txs[t].id = id}

C2_RaceOneCommission ==
    \A id \in DOMAIN revenues :
        ( /\ Cardinality(RaceOn(id)) >= 2
          /\ \A t \in RaceOn(id) :
                /\ txs[t].pc = "done"
                /\ txs[t].status = "approved"
                /\ txs[t].seen = "pending"
                /\ RevenuesUpdatePolicy(txs[t].actor, revenues[id]) )
        => /\ CommissionCount(id) = 1
           /\ ApprovalNotificationCount(id) = 1
           /\ revenues[id].status = "approved"
           /\ \A t \in RaceOn(id) :
                /\ txs[t].res \in {"ok", "error"}
                /\ txs[t].coms = (IF txs[t].seq = 1 THEN 1 ELSE 0)
                /\ txs[t].notes = (IF txs[t].seq = 1 THEN 1 ELSE 0)

\* two admitted approve requests were both issued while the revenue was
\* pending, and both are done
C2_Witness ==
    \E id \in DOMAIN revenues :
        /\ Cardinality(RaceOn(id)) >= 2
        /\ \A t \in RaceOn(id) :
              /\ txs[t].pc = "done" /\ txs[t].status = "approved"
              /\ txs[t].seen = "pending"
              /\ RevenuesUpdatePolicy(txs[t].actor, revenues[id])
        /\ \E t, u \in RaceOn(id) : txs[t].actor # txs[u].actor

\* C3: an update that would move an expense, revenue or claim out of a
\* terminal status (approved or rejected for expenses and revenues, rejected
\* or paid for claims) is refused and leaves the stored status unchanged,
\* whoever issues it.
TerminalStatuses(tbl) ==
    IF tbl = "claims" THEN {"rejected", "paid"} ELSE {"approved", "rejected"}

C3_TerminalStatusIsFinal ==
    ( /\ last.op = "update"
      /\ last.tbl \in {"expenses", "revenues", "claims"}
      /\ last.was \in TerminalStatuses(last.tbl)
      /\ last.status \notin {"none", last.was} )
    => last.res # "ok"

\* C4: an insert into revenues by a principal whose role is employee is
\* denied: no revenue row appears in a step whose requester is an employee.
C4_EmployeeCannotInsertRevenue ==
    [][ \A id \in AllIds :
          (id \notin DOMAIN revenues /\ id \in DOMAIN revenues')
          => get_current_user_role(last'.actor) # "employee" ]_vars

\* C5: an update by a non-admin owner of its own expense, revenue or claim
\* changes nothing when the record's status is not pending.
C5_OwnerUpdatesOnlyPending ==
    [][ ( /\ last'.op = "update"
          /\ last'.tbl \in {"expenses", "revenues", "claims"}
          /\ last'.res = "ok"
          /\ get_current_user_role(last'.actor) # "admin"
          /\ \/ last'.tbl = "expenses" /\ expenses[last'.id].user_id = last'.actor
             \/ last'.tbl = "revenues" /\ revenues[last'.id].user_id = last'.actor
             \/ last'.tbl = "claims" /\ claims[last'.id].user_id = last'.actor )
        => last'.was = "pending" ]_vars

\* C6: no read available to a principal who is not an admin (table select,
\* the views, the get_*_with_profiles functions with any argument) returns
\* an expense, revenue or claim owned by somebody else.
C6_NoForeignRead ==
    \A p \in Users :
        ~IsAdmin(p) =>
            /\ \A id \in SelectExpenses(p) : expenses[id].user_id = p
            /\ \A id \in SelectRevenues(p) : revenues[id].user_id = p
            /\ \A id \in SelectClaims(p) : claims[id].user_id = p
            /\ \A arg \in TargetArgs :
                 /\ \A id \in get_expenses_with_profiles(arg) : expenses[id].user_id = p
                 /\ \A id \in get_revenues_with_profiles(arg) : revenues[id].user_id = p
                 /\ \A id \in get_claims_with_profiles(arg) : claims[id].user_id = p

\* C7: when a pending revenue with amount a and commission rate c percent
\* is approved, the update adds a commission record whose commission_amount
\* is a*c/100 rounded half-up to 2 decimals, and stores the same value in
\* the revenue's commission_amount; 1000.00 at 5.00 gives 50.00, 33.33 at 5
\* gives 1.67 and 2000.00 at 10.00 gives 200.00.
\* cents is amount * rate / 10000 rounded half-up
RoundedHalfUp(cents, amount, rate) ==
    /\ 10000 * cents - 5000 <= amount * rate
    /\ amount * rate < 10000 * cents + 5000

C7_CommissionRoundedHalfUp ==
    [][ /\ calculate_commission_amount(100000, 500) = 5000
        /\ calculate_commission_amount(3333, 500) = 167
        /\ calculate_commission_amount(200000, 1000) = 20000
        /\ \A id \in DOMAIN revenues :
             ( /\ id \in DOMAIN revenues'
               /\ revenues[id].status = "pending"
               /\ revenues'[id].status = "approved" )
             => /\ Len(commissions') = Len(commissions) + 1
                /\ LET c == commissions'[Len(commissions')]
                       r == revenues'[id]
                   IN /\ c.revenue_id = id
                      /\ RoundedHalfUp(c.commission_amount, r.amount, r.commission_rate)
                      /\ r.commission_amount = c.commission_amount ]_vars

\* a sale of 33.33 at 5.00 percent was approved: commission 1.67
C7_Witness ==
    \E id \in DOMAIN revenues :
        /\ revenues[id].amount = 3333 /\ revenues[id].commission_rate = 500
        /\ revenues[id].status = "approved"
        /\ revenues[id].commission_amount = 167
        /\ last.op = "update" /\ last.tbl = "revenues" /\ last.id = id
        /\ last.was = "pending" /\ last.status = "approved" /\ last.res = "ok"
        /\ \E i \in 1..Len(commissions) :
              commissions[i].revenue_id = id /\ commissions[i].commission_amount = 167

\* C8: every change of the status of an expense, revenue or claim is made
\* by a principal whose role is admin at the moment of the update.
StatusChanged(table, id) ==
    /\ id \in DOMAIN table
    /\ id \in DOMAIN table'
    /\ table'[id].status # table[id].status

C8_OnlyAdminChangesStatus ==
    [][ ( \E id \in AllIds : \/ StatusChanged(expenses, id)
                             \/ StatusChanged(revenues, id)
                             \/ StatusChanged(claims, id) )
        => get_current_user_role(last'.actor) = "admin" ]_vars

\* C9: the role of a profile changes only through an update issued by a
\* principal whose role is admin.
C9_OnlyAdminChangesRole ==
    [][ profiles' # profiles => get_current_user_role(last'.actor) = "admin" ]_vars

\* C10: re-issuing the approve update on a revenue that is already approved
\* is a no-op: it is not refused, and the revenue row, the commissions table
\* and the notifications table are unchanged.
C10_ReapproveIsNoOp ==
    [][ ( /\ last'.op = "update" /\ last'.tbl = "revenues"
          /\ last'.status = "approved" /\ last'.was = "approved" )
        => /\ last'.res # "error"
           /\ revenues' = revenues
           /\ commissions' = commissions
           /\ notifications' = notifications ]_vars

\* an approved revenue that has its commission record was approved again
C10_Witness ==
    /\ last.op = "update" /\ last.tbl = "revenues"
    /\ last.status = "approved" /\ last.was = "approved" /\ last.res = "ok"
    /\ CommissionCount(last.id) = 1
    /\ ApprovalNotificationCount(last.id) = 1

\* C11: when an admin approves a pending expense owned by A, the update
\* succeeds, the status becomes approved, exactly one notification is added,
\* addressed to A with type success and referencing the expense, and the
\* commissions table is unchanged; no request on expenses changes the
\* commissions table.
C11_ExpenseApprovalNotifiesOwner ==
    [][ /\ ( /\ last'.op = "update" /\ last'.tbl = "expenses"
              /\ last'.status = "approved" /\ last'.was = "pending"
              /\ IsAdmin(last'.actor) )
           => /\ last'.res = "ok"
              /\ expenses'[last'.id].status = "approved"
              /\ notifications' = Append(notifications,
                    [user_id |-> expenses[last'.id].user_id, type |-> "success",
                     reference_type |-> "expense", reference_id |-> last'.id])
              /\ commissions' = commissions
        /\ last'.tbl = "expenses" => commissions' = commissions ]_vars

\* an admin approved a pending expense of somebody else and the owner has
\* the notification
C11_Witness ==
    /\ last.op = "update" /\ last.tbl = "expenses" /\ last.res = "ok"
    /\ last.status = "approved" /\ last.was = "pending"
    /\ IsAdmin(last.actor)
    /\ last.id \in DOMAIN expenses
    /\ expenses[last.id].user_id # last.actor
    /\ expenses[last.id].status = "approved"
    /\ Len(notifications) >= 1
    /\ notifications[Len(notifications)] =
          [user_id |-> expenses[last.id].user_id, type |-> "success",
           reference_type |-> "expense", reference_id |-> last.id]

\* C12: the pending-to-approved update of a revenue and its side effects
\* are one unit: a step that turns a revenue from pending to approved adds
\* its commission record and its notification; a revenue update that raised
\* an error changed nothing, so the status it found pending is still
\* pending; and a commission record appears only in a step that turns its
\* revenue from pending to approved.
WentPendingToApproved(id) ==
    /\ id \in DOMAIN revenues
    /\ id \in DOMAIN revenues'
    /\ revenues[id].status = "pending"
    /\ revenues'[id].status = "approved"

C12_ApprovalIsAtomic ==
    [][ /\ \A id \in AllIds :
              WentPendingToApproved(id)
              => /\ Len(commissions') = Len(commissions) + 1
                 /\ commissions'[Len(commissions')].revenue_id = id
                 /\ SubSeq(commissions', 1, Len(commissions)) = commissions
                 /\ notifications' = Append(notifications,
                       create_notification(revenues'[id].user_id, "success", "revenue", id))
        /\ ( last'.op = "update" /\ last'.tbl = "revenues" /\ last'.res = "error" )
           => /\ revenues' = revenues
              /\ commissions' = commissions
              /\ notifications' = notifications
              /\ revenues'[last'.id].status = last'.was
        /\ commissions' # commissions
           => \E id \in AllIds :
                 /\ WentPendingToApproved(id)
                 /\ last'.res = "ok" ]_vars

\* the insert of the commission record failed inside an approval, and the
\* revenue is still pending
C12_Witness ==
    /\ last.op = "update" /\ last.tbl = "revenues" /\ last.res = "error"
    /\ last.status = "approved" /\ last.was = "pending"
    /\ last.id \in DOMAIN revenues
    /\ revenues[last.id].status = "pending"
    /\ ~commissions_revenue_id_key(last.id)

\* C13: every expense, revenue and claim starts with status pending: a row
\* that appears in a step has status pending, whatever status the payload
\* of the insert carried.
NewRowIsPending(table, id) ==
    (id \notin DOMAIN table /\ id \in DOMAIN table')
    => table'[id].status = "pending"

C13_NewRowsArePending ==
    [][ \A id \in AllIds : /\ NewRowIsPending(expenses, id)
                            /\ NewRowIsPending(revenues, id)
                            /\ NewRowIsPending(claims, id) ]_vars

\* C14: a claim becomes paid only in a step that finds it approved, and the
\* same step leaves it with a payment method, a payment reference and a
\* paid date that are not null.
BecamePaid(id) ==
    /\ id \in DOMAIN claims'
    /\ claims'[id].status = "paid"
    /\ (id \in DOMAIN claims => claims[id].status # "paid")

C14_PaidOnlyFromApprovedWithPayment ==
    [][ \A id \in AllIds :
          BecamePaid(id)
          => /\ id \in DOMAIN claims
             /\ claims[id].status = "approved"
             /\ claims'[id].payment_method # "null"
             /\ claims'[id].payment_reference # "null"
             /\ claims'[id].paid_date # "null" ]_vars

\* C15: an expense or revenue row disappears only in a delete issued by an
\* admin; a claim row disappears only in a delete issued by an admin or by
\* its owner while its status is pending; a delete by a non-admin of an
\* expense, of a revenue or of its own claim that is not pending removes
\* nothing.
Removed(table, id) == id \in DOMAIN table /\ id \notin DOMAIN table'

AppearedOwnedBy(table, id, uid) ==
    (id \notin DOMAIN table /\ id \in DOMAIN table')
    => table'[id].user_id = uid

C16_InsertOnlyAsOneself ==
    [][ /\ \A id \in AllIds : /\ AppearedOwnedBy(expenses, id, last'.actor)
                               /\ AppearedOwnedBy(revenues, id, last'.actor)
                               /\ AppearedOwnedBy(claims, id, last'.actor)
        /\ ( last'.op = "insert" /\ last'.owner # last'.actor )
           => /\ last'.res = "error"
              /\ expenses' = expenses
              /\ revenues' = revenues
              /\ claims' = claims ]_vars

\* an admin asked to insert an expense owned by somebody else and was
\* refused
C16_Witness ==
    /\ last.op = "insert" /\ last.tbl = "expenses" /\ last.res = "error"
    /\ IsAdmin(last.actor)
    /\ last.owner \in Users \ {last.actor}
    /\ last.status \in ExpenseStatuses

\* C17: after any sequence of sign-ups and profile inserts no two profile
\* rows have the same user_id and every identity that has signed up has
\* exactly one profile row; a sign-up or an insert for an identity that has
\* a profile already leaves the profiles table, the role in it included,
\* unchanged.
C17_OneProfilePerIdentity ==
    [][ /\ \A u \in Users :
              Cardinality({i \in 1..Len(profiles') : profiles'[i].user_id = u})
                 = (IF u \in auth_users' THEN 1 ELSE 0)
        /\ ( /\ last'.op \in {"signup", "insert"}
              /\ last'.tbl = "profiles"
              /\ ProfileRowsOf(last'.owner) # {} )
           => /\ profiles' = profiles
              /\ last'.res = "error" ]_vars

\* both identities have signed up and have their profile rows, and an
\* insert of a second profile row for one of them was refused
C17_Witness ==
    /\ auth_users = Users
    /\ last.op = "insert" /\ last.tbl = "profiles" /\ last.res = "error"
    /\ last.owner \in Users
    /\ Cardinality(ProfileRowsOf(last.owner)) = 1
    /\ get_current_user_role(last.owner) = last.was
    /\ \E u, v \in Users : u # v /\ profiles[1].user_id = u /\ profiles[2].user_id = v

\* C18: no expense, revenue or claim row with an amount of 0 or less is
\* ever stored.
C18_AmountsArePositive ==
    /\ \A id \in DOMAIN expenses : expenses[id].amount > 0
    /\ \A id \in DOMAIN revenues : revenues[id].amount > 0
    /\ \A id \in DOMAIN claims : claims[id].amount > 0

\* C19: a status update of an expense, revenue or claim that is refused is
\* reported to the caller as a failure: the statement that changed nothing
\* returns an error, never a result the page shows as success.
C19_RefusedUpdateIsReported ==
    ( /\ last.op = "update"
      /\ last.tbl \in {"expenses", "revenues", "claims"}
      /\ last.status # "none"
      /\ last.res # "ok" )
    => last.res = "error"

\* C20: the decision of the policies on an operation on an expense, revenue
\* or claim is a function of the requester, its role, the command, and the
\* owner and status of the target row: in every reachable state, for every
\* requester and every row, it equals one fixed function of these five
\* values, whatever the other columns of the row and whatever the store
\* holds after the operations performed so far.
PolicyRows == [user_id : Users, status : StatusIn, amount : Amounts]

DecisionOf(uid, role, op, tbl, owner, status) ==
    CASE op = "select" -> uid = owner \/ role = "admin"
      [] op = "insert" -> uid = owner
      [] op = "update" -> uid = owner \/ role = "admin"
      [] op = "delete" -> \/ role = "admin"
                          \/ tbl = "claims" /\ uid = owner /\ status = "pending"

C20_DecisionDependsOnFiveValues ==
    \A uid \in Users, op \in Commands, tbl \in Tables, row \in PolicyRows :
        Decide(uid, op, tbl, row)
          = DecisionOf(uid, get_current_user_role(uid), op, tbl,
                       row.user_id, row.status)

\* the policies admitted an admin's approval of a pending revenue of
\* somebody else in a store that already holds a commission record and a
\* notification, as they had when the store held none
C20_Witness ==
    /\ last.op = "update" /\ last.tbl = "revenues"
    /\ last.status = "approved" /\ last.was = "pending"
    /\ last.id \in DOMAIN revenues
    /\ IsAdmin(last.actor)
    /\ revenues[last.id].user_id # last.actor
    /\ Decide(last.actor, "update", "revenues", revenues[last.id])
    /\ commissions # <<>>
    /\ notifications # <<>>
    /\ last.res = "error"

\* C21: the user_id of an expense, revenue or claim never changes after the
\* row is created: a row that a step keeps has the user_id it had before.
OwnerKept(table, id) ==
    (id \in DOMAIN table /\ id \in DOMAIN table')
    => table'[id].user_id = table[id].user_id

C21_OwnerIsImmutable ==
    [][ \A id \in AllIds : /\ OwnerKept(expenses, id)
                            /\ OwnerKept(revenues, id)
                            /\ OwnerKept(claims, id) ]_vars

\* C22: in every reachable state every commission record references a
\* revenue row that exists and whose status is approved.
C22_CommissionHasApprovedRevenue ==
    \A i \in 1..Len(commissions) :
        /\ commissions[i].revenue_id \in DOMAIN revenues
        /\ revenues[commissions[i].revenue_id].status = "approved"

\* C23: a principal reads and updates only its own profile row: a select
\* by p returns no row whose user_id is not p, and a step changes a profile
\* row only when its requester is the row's identity or an admin.
C23_ProfileIsPrivate ==
    [][ /\ \A p \in Users : \A i \in SelectProfiles(p) : profiles[i].user_id = p
        /\ \A i \in 1..Len(profiles) :
              (i <= Len(profiles') /\ profiles'[i] # profiles[i])
              => \/ profiles[i].user_id = last'.actor
                 \/ IsAdmin(last'.actor) ]_vars

\* C24: for each of expenses, revenues and claims, a step in which an admin
\* moves a pending row to rejected adds exactly one notification, for the
\* row's owner, with type error and a reference to the rejected row.
RejectionNotified(table, ref_type, id) ==
    ( /\ id \in DOMAIN table
      /\ id \in DOMAIN table'
      /\ table[id].status = "pending"
      /\ table'[id].status = "rejected"
      /\ IsAdmin(last'.actor) )
    => notifications' = Append(notifications,
          create_notification(table'[id].user_id, "error", ref_type, id))

C24_RejectionNotifiesOwner ==
    [][ \A id \in AllIds : /\ RejectionNotified(expenses, "expense", id)
                            /\ RejectionNotified(revenues, "revenue", id)
                            /\ RejectionNotified(claims, "claim", id) ]_vars

\* C25: the clean-up of duplicate profiles leaves, for every user_id that
\* has rows, exactly one row, the one with the earliest created_at; a row
\* whose user_id is unique is therefore left as it is.
ProfilesOf(table, u) == {table[i] : i \in {j \in 1..Len(table) : table[j].user_id = u}}

RowsOf(tbl) ==
    IF tbl = "expenses" THEN expenses
    ELSE IF tbl = "revenues" THEN revenues ELSE claims

ReadsOf(p, tbl) ==
    IF tbl = "expenses"
    THEN SelectExpenses(p) \cup UNION {get_expenses_with_profiles(a) : a \in TargetArgs}
    ELSE IF tbl = "revenues"
    THEN SelectRevenues(p) \cup UNION {get_revenues_with_profiles(a) : a \in TargetArgs}
    ELSE SelectClaims(p) \cup UNION {get_claims_with_profiles(a) : a \in TargetArgs}

RoleChanged == last.op = "update" /\ last.tbl = "profiles" /\ last.res = "ok"

C26_RoleChangeTakesEffect ==
    RoleChanged =>
        LET p == last.owner IN
        /\ (last.was = "admin" /\ ~IsAdmin(p)) =>
              \A tbl \in Tables : \A id \in DOMAIN RowsOf(tbl) :
                  RowsOf(tbl)[id].user_id # p =>
                     /\ id \notin ReadsOf(p, tbl)
                     /\ ~Decide(p, "update", tbl, RowsOf(tbl)[id])
                     /\ ~Decide(p, "delete", tbl, RowsOf(tbl)[id])
        /\ (last.was # "admin" /\ IsAdmin(p)) =>
              \A tbl \in Tables : \A id \in DOMAIN RowsOf(tbl) :
                  \A op \in {"select", "update", "delete"} :
                      Decide(p, op, tbl, RowsOf(tbl)[id])

\* C27: every total of the reporting code is the sum over the approved
\* records among those the query can see: the P&L statement, the dashboard
\* summary and a generated performance record count no pending or rejected
\* revenue or expense.
ApprovedIn(table, ids) == {id \in ids : table[id].status = "approved"}

VisibleTo(uid, table, ids, owner) ==
    {id \in ids : owner = "all" \/ table[id].user_id = owner}

C27_TotalsOverApprovedOnly ==
    \A p \in Users :
        /\ \A sel \in SalesmanFilters :
             LET owner == IF IsAdmin(p) THEN sel ELSE p IN
             /\ fetchPLData(p, sel).totalRevenue
                  = SumAmounts(revenues, ApprovedIn(revenues,
                        VisibleTo(p, revenues, SelectRevenues(p), owner)))
             /\ fetchPLData(p, sel).totalExpenses
                  = SumAmounts(expenses, ApprovedIn(expenses,
                        VisibleTo(p, expenses, SelectExpenses(p), owner)))
        /\ fetchFinancialData(p).totalRevenue
             = SumAmounts(revenues, ApprovedIn(revenues, SelectRevenues(p)))
        /\ fetchFinancialData(p).totalExpenses
             = SumAmounts(expenses, ApprovedIn(expenses, SelectExpenses(p)))
        /\ \A u \in Users :
             /\ generatePerformanceData(p, u).total_sales_amount
                  = SumAmounts(revenues, ApprovedIn(revenues,
                        VisibleTo(p, revenues, SelectRevenues(p), u)))
             /\ generatePerformanceData(p, u).total_approved_expenses
                  = SumAmounts(expenses, ApprovedIn(expenses,
                        VisibleTo(p, expenses, SelectExpenses(p), u)))

\* C28: the sign-up of an identity not seen before creates exactly one
\* profile row for it, with the role of the sign-up metadata, or 'employee'
\* when the metadata carries none; and an identity gets a profile with role
\* admin only by such a sign-up or by a role change an admin makes.
HasAdminProfile(table, u) ==
    \E i \in 1..Len(table) : table[i].user_id = u /\ table[i].role = "admin"

C28_SignUpCreatesOneProfile ==
    [][ /\ \A uid \in Users, role \in MetaRoles :
              (uid \notin auth_users /\ handleSignUp(uid, role))
              => /\ Cardinality(ProfilesOf(profiles', uid)) = 1
                 /\ \A r \in ProfilesOf(profiles', uid) :
                       r.role = (IF role = "NULL" THEN "employee" ELSE role)
        /\ \A u \in Users :
              (HasAdminProfile(profiles', u) /\ ~HasAdminProfile(profiles, u))
              => \/ last'.op = "signup" /\ last'.owner = u /\ u \notin auth_users
                 \/ /\ last'.op = "update" /\ last'.tbl = "profiles"
                    /\ IsAdmin(last'.actor) ]_vars

\* C29: when every status update comes from a page handler, i.e. every
\* request issued so far is an approve or reject of a record its page had
\* fetched as pending, no record that is approved or rejected changes its
\* status, whatever the order in which the sessions' requests commit.
IssuedFromPages(requests) ==
    \A t \in TxIds :
        requests[t].pc # "idle"
        => /\ requests[t].seen = "pending"
           /\ requests[t].status \in {"approved", "rejected"}

C29_PagesKeepTerminalStatus ==
    [][ IssuedFromPages(txs')
        => \A id \in AllIds :
              (id \in DOMAIN revenues /\ revenues[id].status \in {"approved", "rejected"})
              => (id \in DOMAIN revenues' /\ revenues'[id].status = revenues[id].status) ]_vars

\* C30: an update from pending to approved of a revenue that has a
\* commission record already (it was approved before and set back to
\* pending) never succeeds: when the update policy admits the caller it
\* fails with an error, and in every case the revenues table (status and
\* commission_amount included), the commissions table and the notifications
\* table are left as they were.
C30_ReapprovalAfterResetFails ==
    [][ ( /\ last'.op = "update" /\ last'.tbl = "revenues"
          /\ last'.status = "approved" /\ last'.was = "pending"
          /\ CommissionCount(last'.id) >= 1 )
        => /\ last'.res # "ok"
           /\ RevenuesUpdatePolicy(last'.actor, revenues[last'.id]) => last'.res = "error"
           /\ revenues' = revenues
           /\ revenues'[last'.id].status = "pending"
           /\ commissions' = commissions
           /\ notifications' = notifications ]_vars

\* an admin approved a revenue, it was set back to pending, and the admin's
\* next approval failed: the revenue is pending, with the commission amount,
\* the one commission record and the one notification of the first approval
C30_Witness ==
    /\ last.op = "update" /\ last.tbl = "revenues" /\ last.res = "error"
    /\ last.status = "approved" /\ last.was = "pending"
    /\ IsAdmin(last.actor)
    /\ last.id \in DOMAIN revenues
    /\ revenues[last.id].status = "pending"
    /\ revenues[last.id].amount > 0
    /\ CommissionCount(last.id) = 1
    /\ ApprovalNotificationCount(last.id) = 1
    /\ \E i \in 1..Len(commissions) :
          /\ commissions[i].revenue_id = last.id
          /\ commissions[i].commission_amount = revenues[last.id].commission_amount

====
